---- MODULE Spec2Model ----
(***************************************************************************)
(* Sec-Vote: the vote service (services/vote/app.py) with its Ledger (the  *)
(* votes table), its Redis membership cache, the token gate                *)
(* (shared/auth_utils.py) and the poll store of the poll service           *)
(* (services/poll/app.py), which is the ground truth of the Poll Oracle.   *)
(*                                                                         *)
(* Every request is handled by its own worker; a worker's steps are the    *)
(* handler's round trips to Redis and to the database, so that requests    *)
(* interleave between any two of them.                                     *)
(***************************************************************************)
EXTENDS Integers, Sequences, FiniteSets, TLC

\* ------------------------------------------------------------------ bounds
NumWorkers == 2     \* concurrent request handlers
MaxRequests == 2    \* requests the vote service takes up in one run
MaxAnonRequests == 3 \* the same, in the run of anonymous requests alone
MaxSeqRequests == 3 \* the same, in the run of one worker alone
MaxPolls == 1       \* polls create_poll may store; requests name polls 1..MaxPolls
MaxUserId == 2      \* user ids (and client addresses) 1..MaxUserId
MaxOptionId == 3    \* requests name options 2..MaxOptionId (a poll's are 1, 2)
TickSeconds == 1800 \* seconds that pass in one Tick
MaxLedger == 3      \* rows the votes table may hold when the results service starts
MaxLateVotes == 2   \* vote requests taken up while the results service runs
ResultsTickSeconds == 10 \* seconds that pass in one ResultsTick
MaxTallyRequests == 3 \* vote requests of a run without cache failures
MaxGatewayRequests == 6 \* requests the gateway takes up in one run
GatewayTickSeconds == 30 \* the step of the gateway's clock
MaxClock == 60      \* the clock of the gateway stops here
MaxStatusRows == 2  \* rows of the votes table when the status checks start
MaxRegisters == 3   \* register requests the auth service takes up in one run
MaxOptions == 3     \* option texts of a create_poll request (and lists of 10 and 11)

\* ------------------------------------------------------- program constants
VOTE_TTL == 3600    \* setex(..., 3600, "1")
RESULTS_TTL == 30   \* setex(cache_key, 30, json.dumps(response))

None == 0

\* rate_limit(max_requests=5, window_seconds=60) of /api/auth/register and the
\* defaults of rate_limit()
REGISTER_MAX == 5
DEFAULT_MAX == 100
WINDOW_SECONDS == 60           \* user_id of an anonymous vote; a missing poll_id/option_id

Workers == 1..NumWorkers
Users == 1..MaxUserId
Ips == 1..MaxUserId
PollIds == 1..MaxPolls
OptionIds == 1..MaxOptionId
\* poll ids of the rows of the votes table: any poll id is taken
LedgerPolls == 1..(MaxPolls + 1)

VARIABLES
    votes,          \* the votes table: a sequence of Vote rows, id = index
    redis_client,   \* whether redis.from_url gave a client (fixed at start-up)
    vote_keys,      \* vote:{poll_id}:{user_id}  -> remaining TTL, 0 = no entry
    vote_ip_keys,   \* vote_ip:{poll_id}:{ip}    -> remaining TTL, 0 = no entry
    poll_votes,     \* poll_votes:{poll_id}:{option_id} -> counter
    polls,          \* the polls table: a sequence of Poll rows, id = index
    req,            \* per worker: the request it handles and where it stands
    budget,         \* requests the run still takes up
    window_votes,   \* history: anonymous rows committed for (poll, ip) since
                    \* the vote_ip entry of that key last expired
    lost,           \* history: dedup keys whose row was committed by a request
                    \* that crashed before its cache write
    results_client, \* results service: whether redis.from_url gave a client
    results_cache,  \* results:{poll_id} -> remaining TTL (0 = no entry), value
    results_resp,   \* results service: the last answer of get_poll_results
    poll_resp,      \* poll service: the last answer of create/delete/close_poll
    users,          \* auth service: the users table, a sequence of User rows
    reg,            \* auth service: per worker, the register request it handles
    request_counts, \* gateway: per client IP, the list of request times
    now,            \* gateway: what datetime.utcnow() returns, in seconds
    gw,             \* gateway: per thread, the request it handles
    invoked         \* history: the handler calls, by IP, route, recorded time
                    \* and the time of the call

gateway_vars == <<request_counts, now, gw, invoked>>

vars == <<votes, redis_client, gateway_vars, vote_keys, vote_ip_keys, poll_votes,
          polls, req, budget, window_votes, lost,
          results_client, results_cache, results_resp, poll_resp, users, reg>>

\* ------------------------------------------------------------------ text
Space == " "

\* str.strip(): drop leading whitespace
RECURSIVE LStrip(_)
LStrip(text) ==
    IF text # <<>> /\ Head(text) = Space THEN LStrip(Tail(text)) ELSE text

\* str.strip(): drop trailing whitespace
RECURSIVE RStrip(_)
RStrip(text) ==
    IF text # <<>> /\ text[Len(text)] = Space
    THEN RStrip(SubSeq(text, 1, Len(text) - 1))
    ELSE text

\* validators.sanitize_input
sanitize_input(text, max_length) ==
    IF text = <<>> THEN text
    ELSE LET stripped == RStrip(LStrip(text))
         IN  IF Len(stripped) > max_length
             THEN SubSeq(stripped, 1, max_length)
             ELSE stripped

\* ------------------------------------------------------------ poll store
\* the last id of the poll_options table (0: no row); the next row gets the
\* id after it
OptionCount(ps) ==
    LET ids == UNION {ps[i].options : i \in 1..Len(ps)}
    IN  IF ids = {} THEN 0 ELSE CHOOSE m \in ids : \A x \in ids : x <= m

\* the non-blank option texts of a create_poll request, in order
RECURSIVE KeptOptions(_)
KeptOptions(options) ==
    IF options = <<>> THEN <<>>
    ELSE LET t == sanitize_input(Head(options), 200)
         IN  IF t # <<>> THEN <<t>> \o KeptOptions(Tail(options))
             ELSE KeptOptions(Tail(options))

\* the username a token carries beside its user_id
Username(user_id) == [of |-> user_id]
NoName == Username(None)

\* the place of a deleted Poll row that is not the last of the table
NoPoll == [creator_id |-> None, creator_username |-> NoName, is_active |-> FALSE,
           options |-> {}, closed_by |-> None]

\* What the Poll Oracle of the spec would report for (poll_id, option_id):
\* read off the poll store.
PollStatus(poll_id, option_id) ==
    IF poll_id \notin 1..Len(polls) \/ polls[poll_id] = NoPoll THEN "NotFound"
    ELSE IF ~polls[poll_id].is_active THEN "Closed"
    ELSE IF option_id \notin polls[poll_id].options THEN "InvalidOption"
    ELSE "Open"

\* vote/app.py check_poll_active: the stub the vote service has instead
check_poll_active(poll_id) == TRUE

\* -------------------------------------------------------------- responses
Resp(code, msg) ==
    [code |-> code, msg |-> msg, has_voted |-> FALSE, option_id |-> None, votes |-> <<>>]
NoResp == Resp(0, "")
AlreadyVoted == "You have already voted on this poll"
\* Flask's answer to an exception no handler catches
Unhandled == Resp(500, "Internal Server Error")

\* A worker's request: where it stands (pc), what it asks, its answer, and
\* its history: the row it added (None: none), the cache writes it made, whether
\* its cache check found the entry (hit), whether a Redis call or the commit
\* failed under it (fault), and what was true when it arrived: the Ledger held
\* a row of its dedup key (prior), the Poll Oracle's report (oracle), a crashed
\* request had left a row of its key without its cache entry (after_lost), the
\* anonymous rows of its key committed since the key's entry last expired
\* (window); the Authorization header it came with (header).
Idle == [pc |-> "idle", op |-> "", poll_id |-> None, option_id |-> None,
         user_id |-> None, ip |-> None, resp |-> NoResp,
         added |-> None, wrote |-> {}, hit |-> FALSE, fault |-> FALSE,
         prior |-> FALSE, oracle |-> "", after_lost |-> FALSE, window |-> 0,
         header |-> [kind |-> "absent", user_id |-> None, username |-> [of |-> None]]]

\* ------------------------------------------------------------------ ledger
\* the query of has_user_voted as it would be with filter_by(poll_id=) alone
VoteOfAnyUser(poll_id, user_id) ==
    LET S == {i \in 1..Len(votes) : votes[i].poll_id = poll_id}
    IN  IF S = {} THEN None ELSE CHOOSE i \in S : \A j \in S : i <= j

\* Vote.query.filter_by(poll_id=, user_id=).first()
VoteOf(poll_id, user_id) ==
    LET S == {i \in 1..Len(votes) :
                 votes[i].poll_id = poll_id /\ votes[i].user_id = user_id}
    IN  IF S = {} THEN None ELSE CHOOSE i \in S : \A j \in S : i <= j

\* the rows of a dedup key: (poll, user) of a token holder, (poll, ip) of an
\* anonymous voter
KeyRows(op, poll_id, id) ==
    {i \in 1..Len(votes) :
        /\ votes[i].poll_id = poll_id
        /\ IF op = "cast_anonymous_vote"
           THEN votes[i].user_id = None /\ votes[i].ip_address = id
           ELSE votes[i].user_id = id}

DedupKey(r) ==
    <<IF r.op = "cast_anonymous_vote" THEN "vote_ip" ELSE "vote", r.poll_id,
      IF r.op = "cast_anonymous_vote" THEN r.ip ELSE r.user_id>>

\* --------------------------------------------------------- results service
\* Vote.query.filter_by(poll_id=poll_id).all(): the poll's rows, in id order
PollVotes(ledger, poll_id) == SelectSeq(ledger, LAMBDA v : v.poll_id = poll_id)

\* lines 79-81: vote_counts[vote.option_id] += 1 over the rows; a dict keeps
\* its keys in the order of their first insertion
RECURSIVE vote_counts(_)
vote_counts(rows) ==
    IF rows = <<>> THEN <<>>
    ELSE LET counts == vote_counts(SubSeq(rows, 1, Len(rows) - 1))
             o == rows[Len(rows)].option_id
             at == {k \in 1..Len(counts) : counts[k].option_id = o}
         IN  IF at = {}
             THEN Append(counts, [option_id |-> o, votes |-> 1])
             ELSE [k \in 1..Len(counts) |->
                      IF k \in at THEN [counts[k] EXCEPT !.votes = @ + 1]
                      ELSE counts[k]]

\* lines 88 and 92: round(count / total_votes * 100, 2), in hundredths of a
\* percent (a quotient exactly between two hundredths needs total_votes >= 32)
Percentage(count, total_votes) ==
    IF total_votes > 0 THEN (20000 * count + total_votes) \div (2 * total_votes) ELSE 0

\* get_poll_results as it would be without line 96: the entries stay in the
\* order of the dict
Unsorted(results) == results

\* line 96: results.sort(key=votes, reverse=True); list.sort is stable, also
\* with reverse=True: entries with equal votes keep their order
RECURSIVE SortByVotes(_)
SortByVotes(results) ==
    IF results = <<>> THEN <<>>
    ELSE LET sorted == SortByVotes(SubSeq(results, 1, Len(results) - 1))
             x == results[Len(results)]
             k == Cardinality({i \in 1..Len(sorted) : sorted[i].votes >= x.votes})
         IN  SubSeq(sorted, 1, k) \o <<x>> \o SubSeq(sorted, k + 1, Len(sorted))

\* lines 69-102: the response body built from the votes table
Aggregate(ledger, poll_id) ==
    LET rows == PollVotes(ledger, poll_id)
        counts == vote_counts(rows)
    IN  [poll_id |-> poll_id,
         total_votes |-> Len(rows),
         results |-> SortByVotes(
             [k \in 1..Len(counts) |->
                 [option_id |-> counts[k].option_id,
                  votes |-> counts[k].votes,
                  percentage |-> Percentage(counts[k].votes, Len(rows))]])]

\* json.dumps(response) and json.loads(cached_results): the text of a JSON
\* object (never empty), and the object read back from it
dumps(body) == <<"{", body, "}">>
loads(text) == text[2]

NoBody == [poll_id |-> None, total_votes |-> 0, results |-> <<>>]

\* a results:{poll_id} entry: remaining TTL, the cached text, and (history)
\* the number of rows the votes table held when the text was built and the
\* seconds passed since
NoEntry == [ttl |-> 0, text |-> <<>>, seen |-> 0, age |-> 0]

\* an answer of get_poll_results: status, body, whether it came from the
\* cache, and (history) how many rows the votes table held when the body was
\* built, how many seconds before the answer that was, and how many rows the
\* table held at the answer
ResultsAnswer(poll_id, code, body, cached, seen, age) ==
    [poll_id |-> poll_id, code |-> code, body |-> body, cached |-> cached,
     seen |-> seen, age |-> age, rows |-> Len(votes)]
NoAnswer == [poll_id |-> None, code |-> 0, body |-> NoBody, cached |-> FALSE,
             seen |-> 0, age |-> 0, rows |-> 0]

\* get_poll_results, lines 56-109; get_ok, set_ok: whether redis_client.get
\* and redis_client.setex return (they are outside any try)
get_poll_results(poll_id, get_ok, set_ok) ==
    LET entry == results_cache[poll_id]
        body == Aggregate(votes, poll_id)
    IN  /\ IF results_client /\ ~get_ok
           THEN /\ results_resp' = ResultsAnswer(poll_id, 500, NoBody, FALSE, 0, 0)
                /\ UNCHANGED results_cache
           ELSE IF results_client /\ entry.ttl > 0 /\ entry.text # <<>>
           THEN /\ results_resp' = ResultsAnswer(poll_id, 200, loads(entry.text), TRUE,
                                                 entry.seen, entry.age)
                /\ UNCHANGED results_cache
           ELSE IF PollVotes(votes, poll_id) = <<>>
           THEN /\ results_resp' = ResultsAnswer(poll_id, 200,
                      [poll_id |-> poll_id, total_votes |-> 0, results |-> <<>>],
                      FALSE, Len(votes), 0)
                /\ UNCHANGED results_cache
           ELSE IF results_client /\ ~set_ok
           THEN /\ results_resp' = ResultsAnswer(poll_id, 500, NoBody, FALSE, 0, 0)
                /\ UNCHANGED results_cache
           ELSE /\ results_resp' = ResultsAnswer(poll_id, 200, body, FALSE, Len(votes), 0)
                /\ results_cache' =
                      IF results_client
                      THEN [results_cache EXCEPT ![poll_id] =
                              [ttl |-> RESULTS_TTL, text |-> dumps(body),
                               seen |-> Len(votes), age |-> 0]]
                      ELSE results_cache
        /\ UNCHANGED <<votes, redis_client, gateway_vars, vote_keys, vote_ip_keys, poll_votes,
                       polls, req, budget, window_votes, lost, results_client,
                   poll_resp, users, reg>>

\* Redis as it would be if setex gave no TTL: time passes and the entries stay
ResultsTickKeeps ==
    /\ \E p \in PollIds : results_cache[p].ttl > 0
    /\ results_cache' = [p \in PollIds |->
          IF results_cache[p].ttl > 0
          THEN [results_cache[p] EXCEPT !.age = @ + ResultsTickSeconds]
          ELSE NoEntry]
    /\ UNCHANGED <<votes, redis_client, gateway_vars, vote_keys, vote_ip_keys, poll_votes,
                   polls, req, budget, window_votes, lost, results_client, results_resp,
                   poll_resp, users, reg>>

\* ResultsTickSeconds pass: a results entry whose TTL is over is gone
ResultsTick ==
    /\ \E p \in PollIds : results_cache[p].ttl > 0
    /\ results_cache' = [p \in PollIds |->
          IF results_cache[p].ttl > ResultsTickSeconds
          THEN [results_cache[p] EXCEPT !.ttl = @ - ResultsTickSeconds,
                                        !.age = @ + ResultsTickSeconds]
          ELSE NoEntry]
    /\ UNCHANGED <<votes, redis_client, gateway_vars, vote_keys, vote_ip_keys, poll_votes,
                   polls, req, budget, window_votes, lost, results_client, results_resp,
                   poll_resp, users, reg>>

\* ---------------------------------------------------------------- gateway
Routes == {"register", "polls"}
Times == {k * GatewayTickSeconds : k \in 0..(MaxClock \div GatewayTickSeconds)}

\* the max_requests of the route's decorator: /api/auth/register, /api/polls
max_requests(route) == IF route = "register" THEN REGISTER_MAX ELSE DEFAULT_MAX

\* a thread's request: the client's address, the route, the current_time it
\* read (line 34), its answer (429, or 200 for "the handler was called") and
\* the length of the cleaned list it measured (line 44)
GwIdle == [pc |-> "idle", client_ip |-> None, route |-> "", current_time |-> 0,
           code |-> 0, kept |-> 0]

NoCalls == [i \in Ips |-> [r \in Routes |-> [st \in Times |-> [at \in Times |-> 0]]]]

GatewayFrame == UNCHANGED <<votes, redis_client, vote_keys, vote_ip_keys, poll_votes,
                            polls, req, window_votes, lost, results_client,
                            results_cache, results_resp, poll_resp, users, reg>>

\* wrapped, lines 33-34: request.remote_addr and datetime.utcnow(), read
\* before the lock is asked for
GwArrive(t, client_ip, route) ==
    /\ gw[t].pc \in {"idle", "done"}
    /\ budget > 0
    /\ budget' = budget - 1
    /\ gw' = [gw EXCEPT ![t] = [GwIdle EXCEPT !.pc = "timed", !.client_ip = client_ip,
                                              !.route = route, !.current_time = now]]
    /\ UNCHANGED <<request_counts, now, invoked>>
    /\ GatewayFrame

\* lines 38-41: the times of the list less than window_seconds before
\* current_time
Recent(times, current_time) ==
    LET InWindow(req_time) == current_time - req_time < WINDOW_SECONDS
    IN  SelectSeq(times, InWindow)

\* the decorator as it would be without line 51: no request is added to the
\* list
GwLimitNoAppend(t) ==
    LET r == gw[t]
        kept == Recent(request_counts[r.client_ip], r.current_time)
    IN  /\ r.pc = "timed"
        /\ request_counts' = [request_counts EXCEPT ![r.client_ip] = kept]
        /\ IF Len(kept) >= max_requests(r.route)
           THEN /\ gw' = [gw EXCEPT ![t] = [r EXCEPT !.pc = "done", !.code = 429,
                                                     !.kept = Len(kept)]]
                /\ UNCHANGED invoked
           ELSE /\ gw' = [gw EXCEPT ![t] = [r EXCEPT !.pc = "done", !.code = 200,
                                                     !.kept = Len(kept)]]
                /\ invoked' = [invoked EXCEPT
                                  ![r.client_ip][r.route][r.current_time][now] = @ + 1]
        /\ UNCHANGED <<now, budget>>
        /\ GatewayFrame

\* lines 36-53: under rate_limit_lock the list is cleaned, measured and
\* extended; then f is called. No other line reads or writes request_counts,
\* so what the lock encloses is one step.
GwLimit(t) ==
    LET r == gw[t]
        kept == Recent(request_counts[r.client_ip], r.current_time)
    IN  /\ r.pc = "timed"
        /\ IF Len(kept) >= max_requests(r.route)
           THEN /\ request_counts' = [request_counts EXCEPT ![r.client_ip] = kept]
                /\ gw' = [gw EXCEPT ![t] = [r EXCEPT !.pc = "done", !.code = 429,
                                                     !.kept = Len(kept)]]
                /\ UNCHANGED invoked
           ELSE /\ request_counts' = [request_counts EXCEPT ![r.client_ip] =
                                         Append(kept, r.current_time)]
                /\ gw' = [gw EXCEPT ![t] = [r EXCEPT !.pc = "done", !.code = 200,
                                                     !.kept = Len(kept)]]
                /\ invoked' = [invoked EXCEPT
                                  ![r.client_ip][r.route][r.current_time][now] = @ + 1]
        /\ UNCHANGED <<now, budget>>
        /\ GatewayFrame

\* GatewayTickSeconds pass
GwTick ==
    /\ now + GatewayTickSeconds <= MaxClock
    /\ now' = now + GatewayTickSeconds
    /\ UNCHANGED <<request_counts, gw, invoked, budget>>
    /\ GatewayFrame

\* ------------------------------------------------------------ auth service
\* the characters of the texts of the model, by class
Letters == {"a", "b", "c", "t"}
Digits == {"1"}
AlNum == Letters \cup Digits

Chars(text) == {text[i] : i \in 1..Len(text)}

\* validators.validate_username: 3 to 20 characters, str.isalnum
validate_username(username) ==
    /\ Len(username) >= 3
    /\ Len(username) <= 20
    /\ Chars(username) \subseteq AlNum

\* validators.validate_email: ^[a-zA-Z0-9._%+-]+@[a-zA-Z0-9.-]+\.[a-zA-Z]{2,}$
validate_email(email) ==
    \E i, j \in 1..Len(email) :
        /\ 1 < i /\ i + 1 < j /\ j + 2 <= Len(email)
        /\ Chars(SubSeq(email, 1, i - 1)) \subseteq AlNum \cup {".", "_", "%", "+", "-"}
        /\ email[i] = "@"
        /\ Chars(SubSeq(email, i + 1, j - 1)) \subseteq AlNum \cup {".", "-"}
        /\ email[j] = "."
        /\ Chars(SubSeq(email, j + 1, Len(email))) \subseteq Letters

\* validators.validate_password: at least 8 characters, a digit and a letter
validate_password(password) ==
    /\ Len(password) >= 8
    /\ Chars(password) \cap Digits # {}
    /\ Chars(password) \cap Letters # {}

\* the body of a register request: no JSON, or username, email and password
RegData(json, username, email, password) ==
    [json |-> json, username |-> username, email |-> email, password |-> password]

\* a worker's register request: where it stands, the sanitized username and
\* email it goes on with, its answer, the users row it added (None: none), and
\* (history) whether its username or its email belonged to a stored user when
\* it arrived and whether its fields passed the checks of lines 60-79
RegIdle == [pc |-> "idle", username |-> <<>>, email |-> <<>>, code |-> 0, msg |-> "",
            added |-> None, dup |-> FALSE, valid |-> FALSE]

RegAnswer(r, code, msg) == [r EXCEPT !.pc = "done", !.code = code, !.msg = msg]

\* User.query.filter_by(username=username).first() / filter_by(email=email)
UsernameTaken(username) == \E i \in 1..Len(users) : users[i].username = username
EmailTaken(email) == \E i \in 1..Len(users) : users[i].email = email

\* the users table as it would be without unique=True on its columns
NoUniqueViolation(username, email) == FALSE

\* User.username and User.email are unique=True: the commit of a row that
\* repeats one of them raises IntegrityError
UniqueViolation(username, email) == UsernameTaken(username) \/ EmailTaken(email)

AuthFrame == UNCHANGED <<votes, redis_client, gateway_vars, vote_keys, vote_ip_keys, poll_votes,
                         polls, req, window_votes, lost,
                         results_client, results_cache, results_resp, poll_resp>>

\* register, lines 56-83: the checks of the body and the query by username
StartRegister(w, data) ==
    LET username == sanitize_input(data.username, 20)
        email == sanitize_input(data.email, 120)
        q == [RegIdle EXCEPT !.dup = UsernameTaken(username) \/ EmailTaken(email)]
        r == [q EXCEPT !.username = username, !.email = email, !.valid = TRUE]
    IN  /\ reg[w].pc \in {"idle", "done"}
        /\ budget > 0
        /\ budget' = budget - 1
        /\ reg' = [reg EXCEPT ![w] =
              IF ~data.json
              THEN RegAnswer(q, 400, "No data provided")
              ELSE IF username = <<>> \/ email = <<>> \/ data.password = <<>>
              THEN RegAnswer(q, 400, "Username, email, and password are required")
              ELSE IF ~validate_username(username)
              THEN RegAnswer(q, 400, "Invalid username. Must be 3-20 alphanumeric characters")
              ELSE IF ~validate_email(email)
              THEN RegAnswer(q, 400, "Invalid email format")
              ELSE IF ~validate_password(data.password)
              THEN RegAnswer(q, 400, "Password must be at least 8 characters with letters and numbers")
              ELSE IF UsernameTaken(username)
              THEN RegAnswer(r, 409, "Username already exists")
              ELSE [r EXCEPT !.pc = "email"]]
        /\ UNCHANGED users
        /\ AuthFrame

\* register, lines 85-86: the query by email
RegCheckEmail(w) ==
    /\ reg[w].pc = "email"
    /\ reg' = [reg EXCEPT ![w] =
          IF EmailTaken(reg[w].email)
          THEN RegAnswer(reg[w], 409, "Email already registered")
          ELSE [reg[w] EXCEPT !.pc = "commit"]]
    /\ UNCHANGED <<users, budget>>
    /\ AuthFrame

\* register, lines 88-111: the User row, the commit, the 201 or the 500
RegCommit(w, db_ok) ==
    /\ reg[w].pc = "commit"
    /\ IF db_ok /\ ~UniqueViolation(reg[w].username, reg[w].email)
       THEN /\ users' = Append(users, [username |-> reg[w].username, email |-> reg[w].email])
            /\ reg' = [reg EXCEPT ![w] =
                  [RegAnswer(reg[w], 201, "User registered successfully")
                      EXCEPT !.added = Len(users) + 1]]
       ELSE /\ reg' = [reg EXCEPT ![w] = RegAnswer(reg[w], 500, "Registration failed")]
            /\ UNCHANGED users
    /\ UNCHANGED budget
    /\ AuthFrame

\* ------------------------------------------------------------- token gate
\* An Authorization header: absent; "Bearer" alone (no second word); "Bearer "
\* (an empty token); a token that does not decode (forged or expired); a
\* token that decodes to the payload of user_id.
HeaderKinds == {"absent", "no_token", "empty", "invalid", "expired", "valid"}
Header(kind, user_id) ==
    [kind |-> kind, user_id |-> user_id, username |-> Username(user_id)]
NoHeader == Header("absent", None)

\* decode_token as it would be without the exp check of jwt.decode: an expired
\* token decodes as well
decode_token_no_expiry(h) == IF h.kind \in {"valid", "expired"} THEN h.user_id ELSE None

\* auth_utils.decode_token: the payload's user_id, or None
decode_token(h) == IF h.kind = "valid" THEN h.user_id ELSE None

\* the username of the payload, or NoName
decode_username(h) == IF h.kind = "valid" THEN h.username ELSE NoName

\* auth_utils.token_required: the 401 it answers, or NoResp when the handler runs
token_required(h) ==
    IF h.kind = "absent" THEN Resp(401, "Token is missing")
    ELSE IF h.kind = "no_token" THEN Resp(401, "Invalid token format")
    ELSE IF h.kind = "empty" THEN Resp(401, "Token is missing")
    ELSE IF decode_token(h) = None THEN Resp(401, "Token is invalid or expired")
    ELSE NoResp

\* ---------------------------------------------------------- request bodies
\* request.get_json(): no body, or poll_id and option_id (None: not given)
Data(json, poll_id, option_id) ==
    [json |-> json, poll_id |-> poll_id, option_id |-> option_id]

\* lines 92-99 / 146-153: the 400 a body earns, or NoResp
BadRequest(data) ==
    IF ~data.json THEN Resp(400, "No data provided")
    ELSE IF data.poll_id = None \/ data.option_id = None
         THEN Resp(400, "poll_id and option_id are required")
    ELSE NoResp

Answer(r, resp) == [r EXCEPT !.pc = "done", !.resp = resp]

\* a call of the Redis client or the commit raised
Raised(r, resp) == [r EXCEPT !.pc = "done", !.resp = resp, !.fault = TRUE]

Rejected(op, resp) == [Idle EXCEPT !.pc = "done", !.op = op, !.resp = resp]

\* the request a worker takes up, with what was true when it arrived
Accept(op, data, user_id, ip) ==
    LET r == [Idle EXCEPT !.pc = "cache", !.op = op, !.poll_id = data.poll_id,
                          !.option_id = data.option_id, !.user_id = user_id,
                          !.ip = ip]
    IN  [r EXCEPT !.prior = KeyRows(op, data.poll_id,
                                    IF op = "cast_anonymous_vote" THEN ip ELSE user_id) # {},
                  !.oracle = PollStatus(data.poll_id, data.option_id),
                  !.after_lost = DedupKey(r) \in lost,
                  !.window = IF op = "cast_anonymous_vote"
                             THEN window_votes[data.poll_id][ip] ELSE 0]

Frame == UNCHANGED <<votes, redis_client, gateway_vars, results_client, results_cache, results_resp, vote_keys, vote_ip_keys,
                     poll_votes, polls, budget, window_votes, lost,
                   poll_resp, users, reg>>

\* a worker that is free, or has answered, takes up the next request
TakeUp(w) ==
    /\ req[w].pc \in {"idle", "done"}
    /\ budget > 0
    /\ budget' = budget - 1
    /\ UNCHANGED <<votes, redis_client, gateway_vars, results_client, results_cache, results_resp, vote_keys, vote_ip_keys,
                   poll_votes, polls, window_votes, lost,
                   poll_resp, users, reg>>

\* ------------------------------------------------------------ vote service
\* cast_vote as it would be without lines 105-106: the answer of
\* has_user_voted is not looked at
VotedIgnored(r) ==
    IF r.op = "cast_vote"
    THEN [r EXCEPT !.pc = "commit"]
    ELSE [r EXCEPT !.pc = "query"]

\* what follows has_user_voted(...) = True in its two callers: the 409 of
\* cast_vote (lines 105-106), the query of check_vote_status (lines 203-204)
Voted(r) ==
    IF r.op = "cast_vote"
    THEN Answer(r, Resp(409, AlreadyVoted))
    ELSE [r EXCEPT !.pc = "query"]

\* what follows has_user_voted(...) = False in its two callers: the commit of
\* cast_vote, the answer of check_vote_status (lines 206-212)
NotVoted(r) ==
    IF r.op = "cast_vote"
    THEN [r EXCEPT !.pc = "commit"]
    ELSE Answer(r, [Resp(200, "") EXCEPT !.has_voted = FALSE])

\* has_user_voted, lines 69-72: redis_client.exists(vote:{poll_id}:{user_id})
CacheCheck(r, redis_ok) ==
    IF ~redis_client THEN [r EXCEPT !.pc = "db"]
    ELSE IF ~redis_ok THEN Raised(r, Unhandled)
    ELSE IF vote_keys[r.poll_id][r.user_id] > 0 THEN Voted([r EXCEPT !.hit = TRUE])
    ELSE [r EXCEPT !.pc = "db"]

\* cast_anonymous_vote as it would be without lines 161-162: the entry is
\* looked up and its presence ignored
AnonCacheCheckNoCooldown(r, redis_ok) ==
    IF ~redis_client THEN [r EXCEPT !.pc = "commit"]
    ELSE IF ~redis_ok THEN Raised(r, Unhandled)
    ELSE [r EXCEPT !.pc = "commit"]

\* cast_anonymous_vote, lines 158-162: redis_client.exists(vote_ip:{poll_id}:{ip})
AnonCacheCheck(r, redis_ok) ==
    IF ~redis_client THEN [r EXCEPT !.pc = "commit"]
    ELSE IF ~redis_ok THEN Raised(r, Unhandled)
    ELSE IF vote_ip_keys[r.poll_id][r.ip] > 0
    THEN Answer([r EXCEPT !.hit = TRUE], Resp(429, AlreadyVoted))
    ELSE [r EXCEPT !.pc = "commit"]

\* cast_vote, lines 86-106: the token gate, the body checks and the cache
\* check of has_user_voted (nothing another request can see happens between)
StartCastVote(w, h, data, ip, redis_ok) ==
    /\ TakeUp(w)
    /\ req' = [req EXCEPT ![w] =
          IF token_required(h) # NoResp
          THEN [Rejected("cast_vote", token_required(h)) EXCEPT !.header = h]
          ELSE IF BadRequest(data) # NoResp
          THEN [Rejected("cast_vote", BadRequest(data)) EXCEPT !.header = h]
          ELSE CacheCheck([Accept("cast_vote", data, decode_token(h), ip)
                              EXCEPT !.header = h], redis_ok)]

\* cast_anonymous_vote, lines 141-162: the body checks and the cache check
StartCastAnonymousVote(w, data, ip, redis_ok) ==
    /\ TakeUp(w)
    /\ req' = [req EXCEPT ![w] =
          IF BadRequest(data) # NoResp
          THEN Rejected("cast_anonymous_vote", BadRequest(data))
          ELSE AnonCacheCheck(Accept("cast_anonymous_vote", data, None, ip), redis_ok)]

\* check_vote_status, lines 196-200: the token gate and the cache check of
\* has_user_voted
StartCheckVoteStatus(w, h, poll_id, redis_ok) ==
    /\ TakeUp(w)
    /\ req' = [req EXCEPT ![w] =
          IF token_required(h) # NoResp
          THEN [Rejected("check_vote_status", token_required(h)) EXCEPT !.header = h]
          ELSE CacheCheck([Accept("check_vote_status", Data(TRUE, poll_id, None),
                                  decode_token(h), None) EXCEPT !.header = h], redis_ok)]

\* has_user_voted as it would be if a cache miss were its answer: the votes
\* table is not asked
DbCheckCacheOnly(w) ==
    /\ req[w].pc = "db"
    /\ req' = [req EXCEPT ![w] = NotVoted(req[w])]
    /\ Frame

\* has_user_voted, lines 75-83: the query of the votes table
DbCheck(w) ==
    /\ req[w].pc = "db"
    /\ req' = [req EXCEPT ![w] =
          IF VoteOf(req[w].poll_id, req[w].user_id) # None
          THEN IF redis_client THEN [req[w] EXCEPT !.pc = "backfill"] ELSE Voted(req[w])
          ELSE NotVoted(req[w])]
    /\ Frame

\* has_user_voted as it would be without lines 79-80: a row found in the
\* table is answered and the entry is left as it was
BackfillSkipped(w, redis_ok) ==
    /\ req[w].pc = "backfill"
    /\ req' = [req EXCEPT ![w] = Voted(req[w])]
    /\ Frame

\* has_user_voted, lines 79-81: setex of the entry after a hit in the table
Backfill(w, redis_ok) ==
    /\ req[w].pc = "backfill"
    /\ IF redis_ok
       THEN /\ vote_keys' = [vote_keys EXCEPT ![req[w].poll_id][req[w].user_id] = VOTE_TTL]
            /\ req' = [req EXCEPT ![w] = [Voted(req[w]) EXCEPT !.wrote = {"backfill"}]]
       ELSE /\ req' = [req EXCEPT ![w] = Raised(req[w], Unhandled)]
            /\ UNCHANGED vote_keys
    /\ UNCHANGED <<votes, redis_client, gateway_vars, results_client, results_cache, results_resp, vote_ip_keys, poll_votes, polls,
                   budget, window_votes, lost,
                   poll_resp, users, reg>>

\* the 201 of lines 127-134 / 182-189
Created(r) ==
    Resp(201, IF r.op = "cast_anonymous_vote"
              THEN "Anonymous vote cast successfully"
              ELSE "Vote cast successfully")

\* the Vote row of lines 109-115 / 165-171
NewVote(r) ==
    [poll_id |-> r.poll_id, option_id |-> r.option_id, user_id |-> r.user_id,
     ip_address |-> r.ip]

\* the commit as it would be if the table kept one row per (poll_id, user_id,
\* ip_address) and a second row of a key took the place of the first
InsertReplacing(row) ==
    LET S == {i \in 1..Len(votes) :
                 /\ votes[i].poll_id = row.poll_id
                 /\ votes[i].user_id = row.user_id
                 /\ votes[i].ip_address = row.ip_address}
    IN  IF S = {} THEN Append(votes, row)
        ELSE [votes EXCEPT ![CHOOSE i \in S : TRUE] = row]

\* db.session.add(vote); db.session.commit(): the table takes every row, it
\* has an index on (poll_id, user_id) and no uniqueness constraint
Insert(row) == Append(votes, row)

\* the commit as it would be if a failed commit were passed over: the cache
\* writes of lines 121-125 / 177-180 follow it all the same
CommitPassedOver(w, db_ok) ==
    /\ req[w].pc = "commit"
    /\ IF db_ok
       THEN /\ votes' = Insert(NewVote(req[w]))
            /\ req' = [req EXCEPT ![w] =
                  IF redis_client
                  THEN [req[w] EXCEPT !.pc = "setex", !.added = Len(votes')]
                  ELSE [Answer(req[w], Created(req[w]))
                           EXCEPT !.added = Len(votes')]]
            /\ window_votes' =
                  IF req[w].op = "cast_anonymous_vote"
                  THEN [window_votes EXCEPT ![req[w].poll_id][req[w].ip] = @ + 1]
                  ELSE window_votes
       ELSE /\ req' = [req EXCEPT ![w] =
                  IF redis_client
                  THEN [req[w] EXCEPT !.pc = "setex"]
                  ELSE Raised(req[w], Resp(500, "Failed to cast vote"))]
            /\ UNCHANGED <<votes, window_votes>>
    /\ UNCHANGED <<redis_client, gateway_vars, results_client, results_cache, results_resp, vote_keys, vote_ip_keys, poll_votes, polls, budget, lost,
                   poll_resp, users, reg>>

\* lines 117-119 / 173-175, and the except branch of lines 135-138 / 190-193
Commit(w, db_ok) ==
    /\ req[w].pc = "commit"
    /\ IF db_ok
       THEN /\ votes' = Insert(NewVote(req[w]))
            /\ req' = [req EXCEPT ![w] =
                  IF redis_client
                  THEN [req[w] EXCEPT !.pc = "setex", !.added = Len(votes')]
                  ELSE [Answer(req[w], Created(req[w]))
                           EXCEPT !.added = Len(votes')]]
            /\ window_votes' =
                  IF req[w].op = "cast_anonymous_vote"
                  THEN [window_votes EXCEPT ![req[w].poll_id][req[w].ip] = @ + 1]
                  ELSE window_votes
       ELSE /\ req' = [req EXCEPT ![w] = Raised(req[w], Resp(500, "Failed to cast vote"))]
            /\ UNCHANGED <<votes, window_votes>>
    /\ UNCHANGED <<redis_client, gateway_vars, results_client, results_cache, results_resp, vote_keys, vote_ip_keys, poll_votes, polls, budget, lost,
                   poll_resp, users, reg>>

\* lines 122-123 / 178-179: setex of the membership entry after the commit
SetEx(w, redis_ok) ==
    /\ req[w].pc = "setex"
    /\ IF redis_ok
       THEN /\ req' = [req EXCEPT ![w] = [req[w] EXCEPT !.pc = "incr", !.wrote = {"entry"}]]
            /\ IF req[w].op = "cast_anonymous_vote"
               THEN /\ vote_ip_keys' = [vote_ip_keys EXCEPT ![req[w].poll_id][req[w].ip] = VOTE_TTL]
                    /\ UNCHANGED vote_keys
               ELSE /\ vote_keys' = [vote_keys EXCEPT ![req[w].poll_id][req[w].user_id] = VOTE_TTL]
                    /\ UNCHANGED vote_ip_keys
       ELSE /\ req' = [req EXCEPT ![w] = Raised(req[w], Resp(500, "Failed to cast vote"))]
            /\ UNCHANGED <<vote_keys, vote_ip_keys>>
    /\ UNCHANGED <<votes, redis_client, gateway_vars, results_client, results_cache, results_resp, poll_votes, polls, budget, window_votes, lost,
                   poll_resp, users, reg>>

\* the cache writes as they would be if line 180 were missing: the tally
\* counts the votes of token holders only
IncrTokenHoldersOnly(w, redis_ok) ==
    /\ req[w].pc = "incr"
    /\ IF redis_ok
       THEN /\ poll_votes' = IF req[w].op = "cast_anonymous_vote" THEN poll_votes
                             ELSE [poll_votes EXCEPT ![req[w].poll_id][req[w].option_id] = @ + 1]
            /\ req' = [req EXCEPT ![w] =
                  [Answer(req[w], Created(req[w]))
                      EXCEPT !.wrote = @ \cup {"tally"}]]
       ELSE /\ req' = [req EXCEPT ![w] = Raised(req[w], Resp(500, "Failed to cast vote"))]
            /\ UNCHANGED poll_votes
    /\ UNCHANGED <<votes, redis_client, gateway_vars, results_client, results_cache, results_resp, vote_keys, vote_ip_keys, polls,
                   budget, window_votes, lost,
                   poll_resp, users, reg>>

\* lines 125 / 180: incr of the tally, then the 201 of lines 127-134 / 182-189
Incr(w, redis_ok) ==
    /\ req[w].pc = "incr"
    /\ IF redis_ok
       THEN /\ poll_votes' = [poll_votes EXCEPT ![req[w].poll_id][req[w].option_id] = @ + 1]
            /\ req' = [req EXCEPT ![w] =
                  [Answer(req[w], Created(req[w]))
                      EXCEPT !.wrote = @ \cup {"tally"}]]
       ELSE /\ req' = [req EXCEPT ![w] = Raised(req[w], Resp(500, "Failed to cast vote"))]
            /\ UNCHANGED poll_votes
    /\ UNCHANGED <<votes, redis_client, gateway_vars, results_client, results_cache, results_resp, vote_keys, vote_ip_keys, polls,
                   budget, window_votes, lost,
                   poll_resp, users, reg>>

\* check_vote_status, lines 202-212: the row behind has_voted, and the answer
Query(w) ==
    /\ req[w].pc = "query"
    /\ req' = [req EXCEPT ![w] =
          LET v == VoteOf(req[w].poll_id, req[w].user_id)
          IN  Answer(req[w], [Resp(200, "") EXCEPT
                                !.has_voted = TRUE,
                                !.option_id = IF v = None THEN None ELSE votes[v].option_id])]
    /\ Frame

\* Vote.query.filter_by(user_id=).order_by(Vote.voted_at.desc()): the user's
\* rows, last first
RECURSIVE UserVotes(_, _)
UserVotes(ledger, user_id) ==
    IF ledger = <<>> THEN <<>>
    ELSE LET v == ledger[Len(ledger)]
             rest == UserVotes(SubSeq(ledger, 1, Len(ledger) - 1), user_id)
         IN  IF v.user_id = user_id
             THEN <<[poll_id |-> v.poll_id, option_id |-> v.option_id]>> \o rest
             ELSE rest

\* paginate(page=1, per_page=10): the first ten
FirstPage(rows) == SubSeq(rows, 1, IF Len(rows) < 10 THEN Len(rows) ELSE 10)

\* get_user_votes, lines 215-237, with the default page and per_page
get_user_votes(w, h) ==
    /\ TakeUp(w)
    /\ req' = [req EXCEPT ![w] =
          IF token_required(h) # NoResp
          THEN [Rejected("get_user_votes", token_required(h)) EXCEPT !.header = h]
          ELSE [Rejected("get_user_votes",
                         [Resp(200, "") EXCEPT
                             !.votes = FirstPage(UserVotes(votes, decode_token(h)))])
                   EXCEPT !.header = h, !.user_id = decode_token(h)]]

\* the worker dies after its commit and before its cache writes are through:
\* nothing more of the request runs
Crash(w) ==
    /\ req[w].pc \in {"setex", "incr"}
    /\ req' = [req EXCEPT ![w] = Idle]
    /\ lost' = IF req[w].pc = "setex" THEN lost \cup {DedupKey(req[w])} ELSE lost
    /\ UNCHANGED <<votes, redis_client, gateway_vars, results_client, results_cache, results_resp, vote_keys, vote_ip_keys, poll_votes,
                   polls, budget, window_votes,
                   poll_resp, users, reg>>

\* ------------------------------------------------------------------ Redis
Elapse(ttl) == IF ttl > TickSeconds THEN ttl - TickSeconds ELSE 0

\* TickSeconds pass: every entry's remaining TTL shrinks, an entry at 0 is gone
Tick ==
    /\ \E p \in PollIds, i \in Users : vote_keys[p][i] > 0 \/ vote_ip_keys[p][i] > 0
    /\ vote_keys' = [p \in PollIds |-> [u \in Users |-> Elapse(vote_keys[p][u])]]
    /\ vote_ip_keys' = [p \in PollIds |-> [a \in Ips |-> Elapse(vote_ip_keys[p][a])]]
    /\ window_votes' = [p \in PollIds |-> [a \in Ips |->
          IF vote_ip_keys[p][a] > 0 /\ Elapse(vote_ip_keys[p][a]) = 0
          THEN 0 ELSE window_votes[p][a]]]
    /\ UNCHANGED <<votes, redis_client, gateway_vars, results_client, results_cache, results_resp, poll_votes, polls, req, budget, lost,
                   poll_resp, users, reg>>

\* Redis evicts one membership entry before its TTL is over
Evict(kind, p, i) ==
    /\ IF kind = "vote_ip"
       THEN /\ vote_ip_keys[p][i] > 0
            /\ vote_ip_keys' = [vote_ip_keys EXCEPT ![p][i] = 0]
            /\ window_votes' = [window_votes EXCEPT ![p][i] = 0]
            /\ UNCHANGED vote_keys
       ELSE /\ vote_keys[p][i] > 0
            /\ vote_keys' = [vote_keys EXCEPT ![p][i] = 0]
            /\ UNCHANGED <<vote_ip_keys, window_votes>>
    /\ UNCHANGED <<votes, redis_client, gateway_vars, results_client, results_cache, results_resp, poll_votes, polls, req, budget, lost,
                   poll_resp, users, reg>>

\* ------------------------------------------------------------ poll service
\* an answer of the poll service, with (history) the request's header and the
\* poll it is about
PollAnswer(op, h, poll_id, code, msg) ==
    [op |-> op, code |-> code, msg |-> msg, header |-> h, poll_id |-> poll_id]
NoPollAnswer == PollAnswer("", NoHeader, None, 0, "")

\* the body of a create_poll request: no JSON, or title and options
PollData(json, title, options) == [json |-> json, title |-> title, options |-> options]

\* what the poll service leaves alone
PollFrame == UNCHANGED <<votes, redis_client, gateway_vars, vote_keys, vote_ip_keys, poll_votes,
                         req, budget, window_votes, lost,
                         results_client, results_cache, results_resp, users, reg>>

\* create_poll: the token gate, the checks of title and options, the Poll row
\* with one PollOption row per option text that is not blank
create_poll(h, data, db_ok) ==
    LET id == Len(polls) + 1
        kept == KeptOptions(data.options)
        answer(p, code, msg) == PollAnswer("create_poll", h, p, code, msg)
    IN  /\ IF token_required(h) # NoResp
           THEN /\ poll_resp' = answer(None, 401, token_required(h).msg)
                /\ UNCHANGED polls
           ELSE IF ~data.json
           THEN /\ poll_resp' = answer(None, 400, "No data provided")
                /\ UNCHANGED polls
           ELSE IF sanitize_input(data.title, 200) = <<>>
           THEN /\ poll_resp' = answer(None, 400, "Poll title is required")
                /\ UNCHANGED polls
           ELSE IF Len(data.options) < 2
           THEN /\ poll_resp' = answer(None, 400, "At least 2 options are required")
                /\ UNCHANGED polls
           ELSE IF Len(data.options) > 10
           THEN /\ poll_resp' = answer(None, 400, "Maximum 10 options allowed")
                /\ UNCHANGED polls
           ELSE IF ~db_ok
           THEN /\ poll_resp' = answer(None, 500, "Failed to create poll")
                /\ UNCHANGED polls
           ELSE /\ Len(polls) < MaxPolls
                /\ polls' = Append(polls,
                      [creator_id |-> decode_token(h),
                       creator_username |-> decode_username(h),
                       is_active |-> TRUE,
                       options |-> {OptionCount(polls) + k : k \in 1..Len(kept)},
                       closed_by |-> None])
                /\ poll_resp' = answer(id, 201, "Poll created successfully")
        /\ PollFrame

\* Poll.query.get(poll_id)
Found(poll_id) == poll_id \in 1..Len(polls) /\ polls[poll_id] # NoPoll

\* db.session.delete(poll): the row and its options go; the id of the last
\* row of the table is free again
Deleted(poll_id) ==
    IF poll_id = Len(polls)
    THEN SubSeq(polls, 1, Len(polls) - 1)
    ELSE [polls EXCEPT ![poll_id] = NoPoll]

\* delete_poll: only the creator's request deletes the poll
delete_poll(h, poll_id, db_ok) ==
    LET answer(code, msg) == PollAnswer("delete_poll", h, poll_id, code, msg)
    IN  /\ IF token_required(h) # NoResp
           THEN /\ poll_resp' = answer(401, token_required(h).msg)
                /\ UNCHANGED polls
           ELSE IF ~Found(poll_id)
           THEN /\ poll_resp' = answer(404, "Poll not found")
                /\ UNCHANGED polls
           ELSE IF polls[poll_id].creator_id # decode_token(h)
           THEN /\ poll_resp' = answer(403, "Unauthorized. Only poll creator can delete")
                /\ UNCHANGED polls
           ELSE IF ~db_ok
           THEN /\ poll_resp' = answer(500, "Failed to delete poll")
                /\ UNCHANGED polls
           ELSE /\ polls' = Deleted(poll_id)
                /\ poll_resp' = answer(200, "Poll deleted successfully")
        /\ PollFrame

\* close_poll as it would be without lines 219-220: any token holder closes
close_poll_by_anyone(h, poll_id, db_ok) ==
    LET answer(code, msg) == PollAnswer("close_poll", h, poll_id, code, msg)
    IN  /\ IF token_required(h) # NoResp
           THEN /\ poll_resp' = answer(401, token_required(h).msg)
                /\ UNCHANGED polls
           ELSE IF ~Found(poll_id)
           THEN /\ poll_resp' = answer(404, "Poll not found")
                /\ UNCHANGED polls
           ELSE IF ~db_ok
           THEN /\ poll_resp' = answer(500, "Failed to close poll")
                /\ UNCHANGED polls
           ELSE /\ polls' = [polls EXCEPT ![poll_id].is_active = FALSE,
                                          ![poll_id].closed_by = decode_token(h)]
                /\ poll_resp' = answer(200, "Poll closed successfully")
        /\ PollFrame

\* close_poll: only the creator's request sets is_active to False
close_poll(h, poll_id, db_ok) ==
    LET answer(code, msg) == PollAnswer("close_poll", h, poll_id, code, msg)
    IN  /\ IF token_required(h) # NoResp
           THEN /\ poll_resp' = answer(401, token_required(h).msg)
                /\ UNCHANGED polls
           ELSE IF ~Found(poll_id)
           THEN /\ poll_resp' = answer(404, "Poll not found")
                /\ UNCHANGED polls
           ELSE IF polls[poll_id].creator_id # decode_token(h)
           THEN /\ poll_resp' = answer(403, "Unauthorized. Only poll creator can close")
                /\ UNCHANGED polls
           ELSE IF ~db_ok
           THEN /\ poll_resp' = answer(500, "Failed to close poll")
                /\ UNCHANGED polls
           ELSE /\ polls' = [polls EXCEPT ![poll_id].is_active = FALSE,
                                          ![poll_id].closed_by = decode_token(h)]
                /\ poll_resp' = answer(200, "Poll closed successfully")
        /\ PollFrame

\* ------------------------------------------------------------------- Init
\* the stores after start-up: db.create_all() on an empty database, an empty
\* Redis, no request in any worker
InitStores ==
    /\ votes = <<>>
    /\ redis_client \in BOOLEAN
    /\ vote_keys = [p \in PollIds |-> [u \in Users |-> 0]]
    /\ vote_ip_keys = [p \in PollIds |-> [a \in Ips |-> 0]]
    /\ poll_votes = [p \in PollIds |-> [o \in OptionIds |-> 0]]
    /\ polls = <<>>
    /\ req = [w \in Workers |-> Idle]
    /\ window_votes = [p \in PollIds |-> [a \in Ips |-> 0]]
    /\ lost = {}
    /\ results_client = FALSE
    /\ results_cache = [p \in PollIds |-> NoEntry]
    /\ results_resp = NoAnswer
    /\ poll_resp = NoPollAnswer
    /\ users = <<>>
    /\ reg = [w \in Workers |-> RegIdle]
    /\ request_counts = [i \in Ips |-> <<>>]
    /\ now = 0
    /\ gw = [t \in Workers |-> GwIdle]
    /\ invoked = NoCalls

Init == InitStores /\ budget = MaxRequests

\* ------------------------------------------------------------------- Next
Headers ==
    {Header(k, None) : k \in {"absent", "no_token", "empty"}}
        \cup {Header("invalid", 1), Header("expired", 1)}
        \cup {Header("valid", u) : u \in Users}

ValidHeaders == {h \in Headers : token_required(h) = NoResp}

Bodies ==
    {Data(FALSE, None, None), Data(TRUE, None, 2), Data(TRUE, 1, None)}
        \cup {Data(TRUE, p, o) : p \in PollIds, o \in 2..MaxOptionId}

Titles == {<<"t">>}
OptionLists == {<<<<"a">>, <<"b">>>>}

Next ==
    \/ \E w \in Workers, h \in Headers, d \in Bodies, ok \in BOOLEAN :
          StartCastVote(w, h, d, h.user_id, ok)
    \/ \E w \in Workers, d \in Bodies, a \in Ips, ok \in BOOLEAN :
          StartCastAnonymousVote(w, d, a, ok)
    \/ \E w \in Workers, h \in Headers, p \in PollIds, ok \in BOOLEAN :
          StartCheckVoteStatus(w, h, p, ok)
    \/ \E w \in Workers : DbCheck(w)
    \/ \E w \in Workers, ok \in BOOLEAN : Backfill(w, ok)
    \/ \E w \in Workers, ok \in BOOLEAN : Commit(w, ok)
    \/ \E w \in Workers, ok \in BOOLEAN : SetEx(w, ok)
    \/ \E w \in Workers, ok \in BOOLEAN : Incr(w, ok)
    \/ \E w \in Workers : Query(w)
    \/ \E w \in Workers : Crash(w)
    \/ Tick
    \/ \E k \in {"vote", "vote_ip"}, p \in PollIds, i \in Users : Evict(k, p, i)

\* The vote service on its own: the poll service stores nothing.
Spec == Init /\ [][Next]_vars

\* The four operations of the vote service, two workers.
InitLedger == InitStores /\ budget = MaxRequests

NextLedger ==
    \/ Next
    \/ \E w \in Workers, h \in Headers : get_user_votes(w, h)

SpecLedger == InitLedger /\ [][NextLedger]_vars

\* The vote service with a Redis client whose writes after a commit go
\* through and no worker dying: no outage, no eviction; entries expire, the
\* exists and the backfill of has_user_voted may raise, a commit may fail.
InitTally == InitStores /\ redis_client /\ budget = MaxTallyRequests

NextTally ==
    \/ \E w \in Workers, h \in ValidHeaders, d \in Bodies, ok \in BOOLEAN :
          StartCastVote(w, h, d, h.user_id, ok)
    \/ \E w \in Workers, d \in Bodies, a \in Ips, ok \in BOOLEAN :
          StartCastAnonymousVote(w, d, a, ok)
    \/ \E w \in Workers, h \in ValidHeaders, p \in PollIds, ok \in BOOLEAN :
          StartCheckVoteStatus(w, h, p, ok)
    \/ \E w \in Workers : DbCheck(w)
    \/ \E w \in Workers, ok \in BOOLEAN : Backfill(w, ok)
    \/ \E w \in Workers, ok \in BOOLEAN : Commit(w, ok)
    \/ \E w \in Workers : SetEx(w, TRUE)
    \/ \E w \in Workers : Incr(w, TRUE)
    \/ \E w \in Workers : Query(w)
    \/ Tick

SpecTally == InitTally /\ [][NextTally]_vars

\* The gateway's rate limiter: two threads that take requests of two client
\* addresses to /api/auth/register.
InitGateway == InitStores /\ ~redis_client /\ budget = MaxGatewayRequests

NextGateway ==
    \/ \E t \in Workers, i \in Ips : GwArrive(t, i, "register")
    \/ \E t \in Workers : GwLimit(t)
    \/ GwTick

SpecGateway == InitGateway /\ [][NextGateway]_vars

\* The gateway with one thread, the routes /api/auth/register and
\* /api/polls: a request is through before the next arrives.
NextGatewaySeq ==
    \/ \E i \in Ips, r \in Routes : GwArrive(1, i, r)
    \/ GwLimit(1)
    \/ GwTick

SpecGatewaySeq == InitGateway /\ [][NextGatewaySeq]_vars

\* check_vote_status of worker 1 beside cast_vote of worker 2, over a votes
\* table that holds rows of any poll, of token holders and anonymous, and a
\* cache whose entries have all expired.
StatusRows ==
    {[poll_id |-> p, option_id |-> o, user_id |-> u, ip_address |-> 1] :
        p \in LedgerPolls, o \in 2..MaxOptionId, u \in Users \cup {None}}

InitStatus ==
    /\ \E n \in 0..MaxStatusRows : votes \in [1..n -> StatusRows]
    /\ redis_client \in BOOLEAN
    /\ vote_keys = [p \in PollIds |-> [u \in Users |-> 0]]
    /\ vote_ip_keys = [p \in PollIds |-> [a \in Ips |-> 0]]
    /\ poll_votes = [p \in PollIds |-> [o \in OptionIds |-> 0]]
    /\ polls = <<>>
    /\ req = [w \in Workers |-> Idle]
    /\ budget = MaxRequests
    /\ window_votes = [p \in PollIds |-> [a \in Ips |-> 0]]
    /\ lost = {}
    /\ results_client = FALSE
    /\ results_cache = [p \in PollIds |-> NoEntry]
    /\ results_resp = NoAnswer
    /\ poll_resp = NoPollAnswer
    /\ users = <<>>
    /\ reg = [w \in Workers |-> RegIdle]
    /\ request_counts = [i \in Ips |-> <<>>]
    /\ now = 0
    /\ gw = [t \in Workers |-> GwIdle]
    /\ invoked = NoCalls

NextStatus ==
    \/ \E h \in ValidHeaders, p \in PollIds, ok \in BOOLEAN :
          StartCheckVoteStatus(1, h, p, ok)
    \/ \E h \in ValidHeaders, d \in Bodies, ok \in BOOLEAN :
          StartCastVote(2, h, d, h.user_id, ok)
    \/ \E w \in Workers : DbCheck(w)
    \/ \E w \in Workers, ok \in BOOLEAN : Backfill(w, ok)
    \/ \E w \in Workers, ok \in BOOLEAN : Commit(w, ok)
    \/ \E w \in Workers, ok \in BOOLEAN : SetEx(w, ok)
    \/ \E w \in Workers, ok \in BOOLEAN : Incr(w, ok)
    \/ \E w \in Workers : Query(w)
    \/ Tick
    \/ \E p \in PollIds, u \in Users : Evict("vote", p, u)

SpecStatus == InitStatus /\ [][NextStatus]_vars

\* The vote service without a Redis client, beside the poll service.
InitPolls == InitStores /\ ~redis_client /\ budget = MaxRequests

NextPolls ==
    \/ \E w \in Workers, h \in Headers, d \in Bodies, ok \in BOOLEAN :
          StartCastVote(w, h, d, h.user_id, ok)
    \/ \E w \in Workers, d \in Bodies, a \in Ips, ok \in BOOLEAN :
          StartCastAnonymousVote(w, d, a, ok)
    \/ \E w \in Workers : DbCheck(w)
    \/ \E w \in Workers, ok \in BOOLEAN : Commit(w, ok)
    \/ \E h \in ValidHeaders, t \in Titles, o \in OptionLists :
          create_poll(h, PollData(TRUE, t, o), TRUE)
    \/ \E h \in ValidHeaders, p \in PollIds : close_poll(h, p, TRUE)

SpecPolls == InitPolls /\ [][NextPolls]_vars

\* Anonymous requests alone, with a Redis client: long enough for a vote, a
\* repeat inside the cool-down and another after it.
InitAnon == InitStores /\ redis_client /\ budget = MaxAnonRequests

NextAnon ==
    \/ \E w \in Workers, d \in Bodies, a \in Ips, ok \in BOOLEAN :
          StartCastAnonymousVote(w, d, a, ok)
    \/ \E w \in Workers, ok \in BOOLEAN : Commit(w, ok)
    \/ \E w \in Workers, ok \in BOOLEAN : SetEx(w, ok)
    \/ \E w \in Workers, ok \in BOOLEAN : Incr(w, ok)
    \/ Tick
    \/ \E p \in PollIds, a \in Ips : Evict("vote_ip", p, a)

SpecAnon == InitAnon /\ [][NextAnon]_vars

\* One worker alone: every request ends (or its worker dies) before the next
\* one arrives.
InitSeq == InitStores /\ budget = MaxSeqRequests

NextSeq ==
    \/ \E h \in Headers, d \in Bodies, ok \in BOOLEAN :
          StartCastVote(1, h, d, h.user_id, ok)
    \/ \E h \in Headers, p \in PollIds, ok \in BOOLEAN :
          StartCheckVoteStatus(1, h, p, ok)
    \/ DbCheck(1)
    \/ \E ok \in BOOLEAN : Backfill(1, ok)
    \/ \E ok \in BOOLEAN : Commit(1, ok)
    \/ \E ok \in BOOLEAN : SetEx(1, ok)
    \/ \E ok \in BOOLEAN : Incr(1, ok)
    \/ Query(1)
    \/ Crash(1)
    \/ Tick
    \/ \E p \in PollIds, u \in Users : Evict("vote", p, u)

SpecSeq == InitSeq /\ [][NextSeq]_vars

\* The results service over a votes table that holds any rows and takes more
\* (anonymous votes of a vote service without a Redis client).
LedgerRows ==
    {[poll_id |-> p, option_id |-> o, user_id |-> None, ip_address |-> 1] :
        p \in LedgerPolls, o \in OptionIds}

InitResults ==
    /\ \E n \in 0..MaxLedger : votes \in [1..n -> LedgerRows]
    /\ redis_client = FALSE
    /\ vote_keys = [p \in PollIds |-> [u \in Users |-> 0]]
    /\ vote_ip_keys = [p \in PollIds |-> [a \in Ips |-> 0]]
    /\ poll_votes = [p \in PollIds |-> [o \in OptionIds |-> 0]]
    /\ polls = <<>>
    /\ req = [w \in Workers |-> Idle]
    /\ budget = MaxLateVotes
    /\ window_votes = [p \in PollIds |-> [a \in Ips |-> 0]]
    /\ lost = {}
    /\ results_client \in BOOLEAN
    /\ results_cache = [p \in PollIds |-> NoEntry]
    /\ results_resp = NoAnswer
    /\ poll_resp = NoPollAnswer
    /\ users = <<>>
    /\ reg = [w \in Workers |-> RegIdle]
    /\ request_counts = [i \in Ips |-> <<>>]
    /\ now = 0
    /\ gw = [t \in Workers |-> GwIdle]
    /\ invoked = NoCalls

NextResults ==
    \/ \E p \in PollIds, get_ok \in BOOLEAN, set_ok \in BOOLEAN :
          get_poll_results(p, get_ok, set_ok)
    \/ ResultsTick
    \/ \E d \in Bodies : StartCastAnonymousVote(1, d, 1, TRUE)
    \/ \E ok \in BOOLEAN : Commit(1, ok)

SpecResults == InitResults /\ [][NextResults]_vars

\* Every token-protected operation of the vote service (one worker, without
\* a Redis client) and of the poll service, under every header.
InitGate == InitStores /\ ~redis_client /\ budget = MaxRequests

NextGate ==
    \/ \E h \in Headers, d \in Bodies : StartCastVote(1, h, d, h.user_id, TRUE)
    \/ \E h \in Headers, p \in PollIds : StartCheckVoteStatus(1, h, p, TRUE)
    \/ \E h \in Headers : get_user_votes(1, h)
    \/ DbCheck(1)
    \/ \E ok \in BOOLEAN : Commit(1, ok)
    \/ Query(1)
    \/ \E h \in Headers, t \in Titles, o \in OptionLists, ok \in BOOLEAN :
          create_poll(h, PollData(TRUE, t, o), ok)
    \/ \E h \in Headers, p \in PollIds, ok \in BOOLEAN : delete_poll(h, p, ok)
    \/ \E h \in Headers, p \in PollIds, ok \in BOOLEAN : close_poll(h, p, ok)

SpecGate == InitGate /\ [][NextGate]_vars

\* The poll service alone, with every header, title and list of option texts.
AllTitles == {<<>>, <<" ">>, <<"t">>}
OptionTexts == {<<>>, <<" ">>, <<"a">>, <<" ", "b">>}
AllOptionLists ==
    UNION {[1..n -> OptionTexts] : n \in 0..MaxOptions}
        \cup {[k \in 1..10 |-> <<"a">>], [k \in 1..11 |-> <<"a">>]}
PollBodies ==
    {PollData(FALSE, <<>>, <<>>)}
        \cup {PollData(TRUE, t, o) : t \in AllTitles, o \in AllOptionLists}

NextPollService ==
    \/ \E h \in Headers, d \in PollBodies, ok \in BOOLEAN : create_poll(h, d, ok)
    \/ \E h \in Headers, p \in PollIds, ok \in BOOLEAN : delete_poll(h, p, ok)
    \/ \E h \in Headers, p \in PollIds, ok \in BOOLEAN : close_poll(h, p, ok)

InitPollService == InitStores /\ ~redis_client /\ budget = 0

SpecPollService == InitPollService /\ [][NextPollService]_vars

\* The auth service alone: register requests of two workers.
Usernames == {<<>>, <<"a", "b">>, <<"a", "-", "c">>, <<"a", "b", "c">>,
              <<" ", "a", "b", "c">>, <<"a", "b", "1">>}
Emails == {<<>>, <<"a", "@", "b">>, <<"a", "@", "b", ".", "c", "c">>,
           <<"a", "@", "b", ".", "c", "c", " ">>, <<"b", "@", "b", ".", "c", "c">>}
Passwords == {<<>>, <<"a", "b", "c">>, <<"a", "b", "c", "a", "b", "c", "a", "1">>}
RegBodies ==
    {RegData(FALSE, <<>>, <<>>, <<>>)}
        \cup {RegData(TRUE, u, e, p) : u \in Usernames, e \in Emails, p \in Passwords}

InitAuth == InitStores /\ ~redis_client /\ budget = MaxRegisters

NextAuth ==
    \/ \E w \in Workers, d \in RegBodies : StartRegister(w, d)
    \/ \E w \in Workers : RegCheckEmail(w)
    \/ \E w \in Workers, ok \in BOOLEAN : RegCommit(w, ok)

SpecAuth == InitAuth /\ [][NextAuth]_vars

\* ================================================================ claims
Done(w) == req[w].pc = "done"
Casting(w) == req[w].op \in {"cast_vote", "cast_anonymous_vote"} /\ req[w].poll_id # None
SameKey(v, w) ==
    /\ req[v].op = req[w].op
    /\ req[v].poll_id = req[w].poll_id
    /\ req[v].user_id = req[w].user_id
    /\ req[v].ip = req[w].ip

\* C1: of the cast_vote requests of one (poll_id, user_id) that arrive while
\* the Ledger holds no vote of that key, and that no failure of Redis or of
\* the commit hits, exactly one is answered 201 and every other one 409.
C1_ExactlyOneSucceeds ==
    \A v, w \in Workers :
        (/\ v # w
         /\ req[v].op = "cast_vote" /\ req[v].poll_id # None /\ SameKey(v, w)
         /\ Done(v) /\ Done(w)
         /\ ~req[v].prior /\ ~req[w].prior
         /\ ~req[v].fault /\ ~req[w].fault)
        => \/ req[v].resp.code = 201 /\ req[w].resp.code = 409
           \/ req[v].resp.code = 409 /\ req[w].resp.code = 201

\* C2: the Ledger never holds two Vote rows with the same poll_id and the
\* same non-null user_id.
C2_AtMostOneVotePerUser ==
    \A i, j \in 1..Len(votes) :
        (/\ votes[i].user_id # None
         /\ votes[i].poll_id = votes[j].poll_id
         /\ votes[i].user_id = votes[j].user_id)
        => i = j

\* C3: a cast_vote that arrives when the Ledger holds a vote of its
\* (poll_id, user_id) never reaches the commit and adds no row, whatever the
\* cache holds and with or without a cache client; unless a call of the Redis
\* client raises under it, it is answered 409 "You have already voted".
C3_LedgerHitRejects ==
    \A w \in Workers :
        (req[w].op = "cast_vote" /\ req[w].prior)
        => /\ req[w].pc \in {"db", "backfill", "done"}
           /\ req[w].added = None
           /\ (Done(w) /\ ~req[w].fault) => req[w].resp = Resp(409, AlreadyVoted)

\* C3, reached: a repeat cast_vote whose cache entry was gone (never written,
\* expired or evicted) was decided by the Ledger, answered 409 and restored
\* the entry.
C3_Witness ==
    \E w \in Workers :
        /\ req[w].op = "cast_vote" /\ req[w].prior /\ Done(w)
        /\ ~req[w].hit /\ req[w].wrote = {"backfill"}
        /\ req[w].resp.code = 409
        /\ Cardinality(KeyRows("cast_vote", req[w].poll_id, req[w].user_id)) = 1

\* ---------------------------------------------------------------- C4
Anonymous(r) == r.op = "cast_anonymous_vote" /\ r.poll_id # None

C4_State ==
    \A w \in Workers :
        Anonymous(req[w]) =>
            /\ req[w].hit =>
                  /\ Done(w)
                  /\ req[w].resp = Resp(429, AlreadyVoted)
                  /\ req[w].added = None
                  /\ req[w].wrote = {}
            /\ (Done(w) /\ ~req[w].hit /\ ~req[w].fault) =>
                  /\ req[w].resp = Resp(201, "Anonymous vote cast successfully")
                  /\ req[w].added \in 1..Len(votes)
                  /\ votes[req[w].added] =
                        [poll_id |-> req[w].poll_id, option_id |-> req[w].option_id,
                         user_id |-> None, ip_address |-> req[w].ip]

\* an anonymous request that arrives (and whose Redis call does not raise)
\* finds the entry exactly when the entry of its (poll_id, ip) is there, and
\* goes on to the commit when it is not; the setex after the commit gives the
\* entry its 3600 s
C4_Step ==
    \A w \in Workers :
        /\ (/\ req[w].pc \in {"idle", "done"}
            /\ req'[w] # req[w]
            /\ Anonymous(req'[w])
            /\ ~req'[w].fault)
           => /\ req'[w].hit <=> vote_ip_keys[req'[w].poll_id][req'[w].ip] > 0
              /\ ~req'[w].hit => req'[w].pc = "commit"
        /\ (/\ Anonymous(req[w])
            /\ req[w].pc = "setex"
            /\ req'[w].pc = "incr")
           => vote_ip_keys'[req[w].poll_id][req[w].ip] = VOTE_TTL

C5_OneAnonymousVotePerWindow ==
    redis_client =>
        \A p \in PollIds, a \in Ips : window_votes[p][a] <= 1

\* ---------------------------------------------------------------- C6
\* C6: without a cache client, a vote request whose dedup key has a row in the
\* Ledger when it arrives is rejected as a duplicate and adds no row, and one
\* that ends with no other row of its key in the Ledger is answered 201 and
\* has added its row; for cast_vote and cast_anonymous_vote alike.
C6_LedgerAloneDecides ==
    ~redis_client =>
        \A w \in Workers :
            (Casting(w) /\ Done(w) /\ ~req[w].fault) =>
                /\ req[w].prior =>
                      req[w].resp.code \in {409, 429} /\ req[w].added = None
                /\ (KeyRows(req[w].op, req[w].poll_id,
                            IF Anonymous(req[w]) THEN req[w].ip ELSE req[w].user_id)
                       \subseteq {req[w].added}) =>
                      req[w].resp.code = 201 /\ req[w].added # None

\* ---------------------------------------------------------------- C7
\* C7: a vote request on a poll that the poll store does not hold, or holds
\* as closed, when the request arrives is answered 404 (resp. 409), adds no
\* row and writes nothing to the cache.
C7_ClosedPollRejected ==
    \A w \in Workers :
        (Casting(w) /\ req[w].oracle \in {"NotFound", "Closed"}) =>
            /\ req[w].added = None
            /\ req[w].wrote = {}
            /\ Done(w) => req[w].resp.code = (IF req[w].oracle = "Closed" THEN 409 ELSE 404)

\* ---------------------------------------------------------------- C8
\* C8: a cast_vote whose option_id is not an option of its poll, open when
\* the request arrives, is answered 400 and adds no row.
C8_InvalidOptionRejected ==
    \A w \in Workers :
        (req[w].op = "cast_vote" /\ req[w].oracle = "InvalidOption") =>
            /\ req[w].added = None
            /\ Done(w) => req[w].resp.code = 400

\* ---------------------------------------------------------------- C9
\* C9: a vote request answered with an error (400, 409, 429 or 500) has added
\* no row and has written neither a membership entry after a commit nor a
\* tally increment.
C9_NoPartialState ==
    \A w \in Workers :
        (/\ req[w].op \in {"cast_vote", "cast_anonymous_vote"}
         /\ Done(w)
         /\ req[w].resp.code \in {400, 409, 429, 500})
        => req[w].added = None /\ req[w].wrote \cap {"entry", "tally"} = {}

\* ---------------------------------------------------------------- C10
\* C10: a request writes to the cache only after its commit, and a vote
\* request that arrives after a request of its dedup key crashed between its
\* commit and its cache write adds no row.
C10_CrashNeverAdmitsDuplicate ==
    \A w \in Workers :
        /\ (req[w].wrote \cap {"entry", "tally"} # {}) => req[w].added # None
        /\ (Casting(w) /\ req[w].after_lost) => req[w].added = None

\* ---------------------------------------------------------------- C11
\* once the votes table holds a row of (p, u), it stays the only row of that
\* key, with the option_id it has
C11_Step ==
    \A p \in PollIds, u \in Users :
        VoteOf(p, u) # None =>
            /\ VoteOf(p, u)' = VoteOf(p, u)
            /\ KeyRows("cast_vote", p, u)' = {VoteOf(p, u)}
            /\ votes'[VoteOf(p, u)].option_id = votes[VoteOf(p, u)].option_id

\* C11: when cast_vote requests do not overlap, a request that arrives after a
\* request of its (poll_id, user_id) has committed is answered 409 whatever
\* its option_id (unless a Redis call raises under it) and adds no row; the
\* votes table keeps exactly one row of that key, with the option_id of the
\* request that committed.
C11_RetryIsSafe ==
    /\ [](\A w \in Workers :
            (req[w].op = "cast_vote" /\ req[w].prior) =>
                /\ req[w].added = None
                /\ Cardinality(KeyRows("cast_vote", req[w].poll_id, req[w].user_id)) = 1
                /\ (Done(w) /\ ~req[w].fault) => req[w].resp.code = 409)
    /\ [][C11_Step]_vars

\* C11, reached: a retry that names another option than the stored row was
\* answered 409 and the one row of its key still has the first option.
C11_Witness ==
    \E w \in Workers :
        /\ req[w].op = "cast_vote" /\ req[w].prior /\ Done(w)
        /\ req[w].resp = Resp(409, AlreadyVoted)
        /\ KeyRows("cast_vote", req[w].poll_id, req[w].user_id)
              = {VoteOf(req[w].poll_id, req[w].user_id)}
        /\ votes[VoteOf(req[w].poll_id, req[w].user_id)].option_id # req[w].option_id

\* ---------------------------------------------------------------- C12
\* the rows of poll p among the first n rows of the votes table
RowsOf(p, n) == {i \in 1..n : i <= Len(votes) /\ votes[i].poll_id = p}
\* those of them that name option o
RowsFor(p, n, o) == {i \in RowsOf(p, n) : votes[i].option_id = o}
\* the first row of poll p that names option o
FirstRow(p, n, o) == CHOOSE i \in RowsFor(p, n, o) : \A j \in RowsFor(p, n, o) : i <= j

\* what C12 asks of a body, against the first n rows of the votes table
Tallies(body, p, n) ==
    LET res == body.results IN
    /\ body.poll_id = p
    /\ body.total_votes = Cardinality(RowsOf(p, n))
    /\ \A o \in OptionIds :
          Cardinality({k \in 1..Len(res) : res[k].option_id = o})
             = (IF RowsFor(p, n, o) = {} THEN 0 ELSE 1)
    /\ \A k \in 1..Len(res) :
          /\ res[k].option_id \in OptionIds
          /\ res[k].votes = Cardinality(RowsFor(p, n, res[k].option_id))
    /\ \A k, l \in 1..Len(res) :
          k < l =>
             \/ res[k].votes > res[l].votes
             \/ /\ res[k].votes = res[l].votes
                /\ FirstRow(p, n, res[k].option_id) < FirstRow(p, n, res[l].option_id)

\* C12: an answer of get_poll_results that did not come from the results
\* cache (and under which no Redis call raised) is a 200 whose total_votes is
\* the number of the poll's rows, with one entry per option that has rows, each
\* with that option's number of rows, ordered by votes descending and, among
\* equal votes, by first row; without rows it is a 200 with total_votes 0 and
\* no entries.
C12_AggregationIsExact ==
    (results_resp.code # 0 /\ ~results_resp.cached /\ results_resp.code # 500) =>
        /\ results_resp.code = 200
        /\ Tallies(results_resp.body, results_resp.poll_id, results_resp.seen)
        /\ (RowsOf(results_resp.poll_id, results_resp.seen) = {}) =>
              results_resp.body.results = <<>> /\ results_resp.body.total_votes = 0

\* C12, reached: an answer built from the table whose two entries have equal
\* votes and stand in the order of their first rows, against the order of
\* their option ids, and a third row of another poll left out.
C12_Witness ==
    /\ results_resp.code = 200 /\ ~results_resp.cached
    /\ results_resp.seen = Len(votes)
    /\ Len(votes) = 3
    /\ results_resp.body.total_votes = 2
    /\ Len(results_resp.body.results) = 2
    /\ results_resp.body.results[1].votes = results_resp.body.results[2].votes
    /\ results_resp.body.results[1].option_id > results_resp.body.results[2].option_id

BadHeader(h) == h.kind # "valid"
Protected(w) == req[w].op \in {"cast_vote", "check_vote_status", "get_user_votes"}

C14_State ==
    /\ \A w \in Workers :
          Protected(w) =>
              /\ BadHeader(req[w].header) =>
                    /\ Done(w) /\ req[w].resp.code = 401
                    /\ req[w].user_id = None /\ req[w].added = None /\ req[w].wrote = {}
              /\ ~BadHeader(req[w].header) =>
                    /\ req[w].resp.code # 401
                    /\ req[w].user_id \in {None, req[w].header.user_id}
                    /\ req[w].added # None =>
                          votes[req[w].added].user_id = req[w].header.user_id
    /\ poll_resp.code # 0 =>
          /\ BadHeader(poll_resp.header) <=> poll_resp.code = 401
          /\ poll_resp.code = 201 =>
                /\ polls[poll_resp.poll_id].creator_id = poll_resp.header.user_id
                /\ polls[poll_resp.poll_id].creator_username = poll_resp.header.username
          /\ (poll_resp.code = 200 /\ poll_resp.op = "close_poll") =>
                polls[poll_resp.poll_id].closed_by = poll_resp.header.user_id

\* a step that answers a request with a bad header changes no store
C14_Step ==
    /\ (poll_resp' # poll_resp /\ BadHeader(poll_resp'.header)) => polls' = polls
    /\ \A w \in Workers :
          (req'[w] # req[w] /\ Protected(w)' /\ BadHeader(req'[w].header)) =>
              UNCHANGED <<votes, vote_keys, vote_ip_keys, poll_votes, polls>>

\* C14: cast_vote, check_vote_status, get_user_votes, create_poll, delete_poll
\* and close_poll answer 401 to a request whose Authorization header is absent,
\* has no token, or carries a token that is forged or expired, and then change
\* neither the votes table nor the cache nor the poll store; a request they
\* let through acts with the user_id and username of its token's payload.
C14_TokenGate == [](C14_State) /\ [][C14_Step]_vars

\* C14, reached: cast_vote has answered 401 to an expired token and
\* delete_poll has answered 401 to a header without a token, for a poll that
\* is still there.
C14_Witness ==
    \E w \in Workers :
        /\ req[w].op = "cast_vote" /\ Done(w)
        /\ req[w].header.kind = "expired" /\ req[w].resp.code = 401
        /\ poll_resp.op = "delete_poll" /\ poll_resp.code = 401
        /\ poll_resp.header.kind = "no_token"
        /\ Found(poll_resp.poll_id)

\* ---------------------------------------------------------------- C16
\* C16: every poll in the poll store has at least 2 and at most 10 options.
C16_TwoToTenOptions ==
    \A p \in 1..Len(polls) :
        Found(p) =>
            /\ Cardinality(polls[p].options) >= 2
            /\ Cardinality(polls[p].options) <= 10

\* ---------------------------------------------------------------- C17
C17_State ==
    \A p \in 1..Len(polls) :
        (Found(p) /\ ~polls[p].is_active) => polls[p].closed_by = polls[p].creator_id

C17_Step ==
    /\ \A p \in 1..Len(polls) :
          Found(p) =>
              \* a closed poll stays closed while it is there
              /\ (p \in 1..Len(polls') /\ polls'[p] # NoPoll /\ ~polls[p].is_active)
                    => ~polls'[p].is_active
              \* the poll changes or goes only under its creator's 200
              /\ (p \notin 1..Len(polls') \/ polls'[p] # polls[p]) =>
                    /\ poll_resp'.op \in {"delete_poll", "close_poll"}
                    /\ poll_resp'.poll_id = p
                    /\ poll_resp'.code = 200
                    /\ poll_resp'.header.kind = "valid"
                    /\ poll_resp'.header.user_id = polls[p].creator_id
              \* a token holder who is not the creator is answered 403
              /\ (/\ poll_resp' # poll_resp
                  /\ poll_resp'.op \in {"delete_poll", "close_poll"}
                  /\ poll_resp'.poll_id = p
                  /\ poll_resp'.header.kind = "valid"
                  /\ poll_resp'.header.user_id # polls[p].creator_id)
                 => poll_resp'.code = 403 /\ polls' = polls
    /\ (poll_resp' # poll_resp /\ poll_resp'.code = 403) => polls' = polls

\* C17: delete_poll and close_poll by a token holder who is not the poll's
\* creator are answered 403 and leave the poll store as it is; a poll changes
\* or goes only under a 200 to its creator; a poll is closed only by its
\* creator's close_poll and, while it is there, stays closed.
C17_OnlyCreator == [](C17_State) /\ [][C17_Step]_vars

\* C17, reached: close_poll by another user than the creator was answered 403
\* and the poll is there and open.
C17_Witness ==
    /\ poll_resp.op = "close_poll" /\ poll_resp.code = 403
    /\ Found(poll_resp.poll_id)
    /\ polls[poll_resp.poll_id].is_active
    /\ poll_resp.header.kind = "valid"
    /\ poll_resp.header.user_id # polls[poll_resp.poll_id].creator_id

\* ---------------------------------------------------------------- C15
\* C15: no two rows of the users table share a username and no two share an
\* email, whatever the interleaving of register requests; a register request
\* whose username or email belongs to a stored user when it arrives adds no
\* user and, its fields passing the checks that come first, is answered 409.
C15_UniqueUsers ==
    /\ \A i, j \in 1..Len(users) :
          (users[i].username = users[j].username \/ users[i].email = users[j].email)
             => i = j
    /\ \A w \in Workers :
          reg[w].dup =>
              /\ reg[w].pc \in {"email", "done"}
              /\ reg[w].added = None
              /\ (reg[w].pc = "done" /\ reg[w].valid) => reg[w].code = 409

\* C15, reached: two register requests of one username passed both queries
\* before either commit; one user is stored, the other request failed at the
\* commit (500) and added none; and a later request of that username was
\* answered 409.
C15_Witness ==
    \E v, w \in Workers :
        /\ v # w
        /\ reg[v].pc = "done" /\ reg[v].code = 500 /\ ~reg[v].dup
        /\ reg[w].pc = "done" /\ reg[w].code = 409 /\ reg[w].dup
        /\ reg[v].username = reg[w].username
        /\ Len(users) = 1 /\ users[1].username = reg[v].username
        /\ users[1].email # reg[v].email

\* ---------------------------------------------------------------- C18
\* C18: in every state of the vote service, a membership entry
\* vote:{poll_id}:{user_id} is there only if the votes table holds a row of
\* that poll and user, and an entry vote_ip:{poll_id}:{ip} only if the table
\* holds an anonymous row of that poll and address.
C18_CacheSound ==
    /\ \A p \in PollIds, u \in Users :
          vote_keys[p][u] > 0 => KeyRows("cast_vote", p, u) # {}
    /\ \A p \in PollIds, a \in Ips :
          vote_ip_keys[p][a] > 0 => KeyRows("cast_anonymous_vote", p, a) # {}

\* C18, reached: an entry of each kind is in the cache, one written after the
\* commit of a token holder's vote, one after the commit of an anonymous vote
C18_Witness ==
    /\ \E p \in PollIds, u \in Users : vote_keys[p][u] > 0
    /\ \E p \in PollIds, a \in Ips : vote_ip_keys[p][a] > 0
    /\ Len(votes) = 2

\* ---------------------------------------------------------------- C19
\* a request of cast_vote or check_vote_status that passed the token gate and
\* the body checks, and so called has_user_voted
ChecksMembership(r) ==
    r.op \in {"cast_vote", "check_vote_status"} /\ r.poll_id # None

\* a request whose cache check found the entry never reaches the query of
\* has_user_voted, writes nothing and adds no row; has_user_voted is True for
\* it: cast_vote answers 409 "You have already voted", check_vote_status
\* answers has_voted
C19_State ==
    \A w \in Workers :
        (ChecksMembership(req[w]) /\ req[w].hit) =>
            /\ req[w].pc \in {"query", "done"}
            /\ req[w].wrote = {} /\ req[w].added = None /\ ~req[w].fault
            /\ Done(w) => IF req[w].op = "cast_vote"
                          THEN req[w].resp = Resp(409, AlreadyVoted)
                          ELSE req[w].resp.code = 200 /\ req[w].resp.has_voted

C19_Step ==
    \A w \in Workers :
        LET r == req[w]
            n == req'[w]
        IN  \* a miss that finds a row is not answered before the setex
            /\ (r.pc = "db" /\ n # r /\ redis_client /\ VoteOf(r.poll_id, r.user_id) # None)
                  => n.pc = "backfill"
            \* the setex writes the entry with the full TTL, or raises
            /\ (r.pc = "backfill" /\ n.pc # "backfill")
                  => \/ n.pc = "done" /\ n.fault
                     \/ /\ vote_keys'[r.poll_id][r.user_id] = VOTE_TTL
                        /\ n.wrote = {"backfill"}
                        /\ n.pc \in {"query", "done"}
                        /\ n.pc = "done" => n.resp = Resp(409, AlreadyVoted)
            \* a request that arrives while the entry of its key is there is
            \* answered from the cache (or the call of the client raises)
            /\ (budget' < budget /\ n # r /\ ChecksMembership(n) /\ redis_client
                   /\ vote_keys[n.poll_id][n.user_id] > 0)
                  => n.hit \/ (n.pc = "done" /\ n.fault)

\* C19: has_user_voted, when the cache has no entry of (poll_id, user_id) and
\* the votes table has a row of it, writes the entry with the TTL before it
\* returns (unless the setex raises); a check of that key that arrives while
\* the entry is there is answered from the cache, and a cache hit is taken as
\* voted without the query of has_user_voted.
C19_LazyBackfill == [](C19_State) /\ [][C19_Step]_vars

\* C19, reached: the one vote of a key was committed by a worker that died
\* before its setex, so the entry was never written by a cast; a later check
\* found the row and wrote the entry, and the request after it was answered
\* from the cache.
C19_Witness ==
    \E w \in Workers :
        /\ ChecksMembership(req[w]) /\ req[w].hit /\ Done(w)
        /\ DedupKey(req[w]) \in lost
        /\ Len(votes) = 1
        /\ budget = 0

\* ---------------------------------------------------------------- C20
\* a cast request answered 201 has added one row, the row of its body, and no
\* other request in flight claims that row; a cast request turned away by a
\* check (400, 401, 409, 429) has added none; a request of check_vote_status
\* or get_user_votes never adds one
C20_State ==
    \A w \in Workers :
        /\ (Casting(w) /\ Done(w) /\ req[w].resp.code = 201) =>
              /\ req[w].added \in 1..Len(votes)
              /\ votes[req[w].added] = NewVote(req[w])
              /\ \A v \in Workers \ {w} : req[v].added # req[w].added
        /\ (Done(w) /\ req[w].resp.code \in {400, 401, 409, 429}) => req[w].added = None
        /\ req[w].op \in {"check_vote_status", "get_user_votes"} => req[w].added = None

\* a step leaves the votes table as it is or appends one row to it, the row
\* of a cast request that had added none before
C20_Step ==
    \/ votes' = votes
    \/ /\ Len(votes') = Len(votes) + 1
       /\ SubSeq(votes', 1, Len(votes)) = votes
       /\ \E w \in Workers :
             /\ Casting(w) /\ req[w].added = None
             /\ req'[w].added = Len(votes')
             /\ votes'[Len(votes')] = NewVote(req[w])

\* C20: every step of cast_vote, cast_anonymous_vote, check_vote_status and
\* get_user_votes leaves the votes table unchanged or appends exactly one row,
\* and no row that is there changes; a cast answered 201 has added exactly
\* one row, a cast turned away has added none.
C20_AppendOnly == [](C20_State) /\ [][C20_Step]_vars

\* C20, reached: of two casts of one key the first was answered 201 and its
\* row is the table's only row, the second was answered 409 and added none.
C20_Witness ==
    \E v, w \in Workers :
        /\ v # w /\ Casting(v) /\ Casting(w) /\ SameKey(v, w)
        /\ Done(v) /\ req[v].resp.code = 201 /\ req[v].added = 1
        /\ Done(w) /\ req[w].resp.code = 409 /\ req[w].added = None
        /\ req[w].option_id # req[v].option_id
        /\ Len(votes) = 1 /\ votes[1] = NewVote(req[v])

\* ---------------------------------------------------------------- C21
\* the rows of the votes table of poll p and option o
OptionRows(p, o) ==
    {i \in 1..Len(votes) : votes[i].poll_id = p /\ votes[i].option_id = o}

\* the requests that have committed a row of (p, o) and not yet reached the
\* end of their incr
Pending(p, o) ==
    {w \in Workers : /\ req[w].pc \in {"setex", "incr"}
                     /\ req[w].poll_id = p /\ req[w].option_id = o}

\* the tally of (p, o) and the increments still to come make up the rows of
\* (p, o); a request answered with anything but 201 has not incremented
C21_State ==
    /\ \A p \in PollIds, o \in OptionIds :
          poll_votes[p][o] + Cardinality(Pending(p, o)) = Cardinality(OptionRows(p, o))
    /\ \A w \in Workers :
          (Done(w) /\ req[w].resp.code # 201) => "tally" \notin req[w].wrote

C21_Step ==
    \* a step leaves every tally as it is, or adds 1 to the one tally of a cast
    \* request whose row is committed, and that request is answered 201
    /\ \/ poll_votes' = poll_votes
       \/ \E w \in Workers :
             /\ Casting(w) /\ req[w].added # None
             /\ votes[req[w].added].poll_id = req[w].poll_id
             /\ votes[req[w].added].option_id = req[w].option_id
             /\ poll_votes' = [poll_votes EXCEPT ![req[w].poll_id][req[w].option_id] = @ + 1]
             /\ req'[w].pc = "done" /\ req'[w].resp.code = 201
             /\ "tally" \notin req[w].wrote /\ "tally" \in req'[w].wrote
    \* admission looks at the membership entry and at the table, whatever the
    \* tally holds: a cast_vote goes to its commit exactly when neither has
    \* its key
    /\ \A w \in Workers :
          LET r == req[w]
              n == req'[w]
          IN  (r.op = "cast_vote" /\ r.pc = "db" /\ n # r) =>
                  (n.pc = "commit" <=> VoteOf(r.poll_id, r.user_id) = None)

\* C21: while the Redis client is there and its writes go through, each
\* committed vote, of a token holder or anonymous, adds exactly 1 to
\* poll_votes:{poll_id}:{option_id}; a rejected or failed request leaves every
\* tally as it is; admission does not depend on a tally; and the tally of
\* (poll_id, option_id) is the number of rows of it once the requests in
\* flight are through.
C21_TallyCountsVotes == [](C21_State) /\ [][C21_Step]_vars

\* C21, reached: an anonymous vote and a token holder's vote of one option are
\* both answered 201 after a request was rejected, and the tally of that
\* option is 2, the number of its rows
C21_Witness ==
    \E v, w \in Workers, p \in PollIds, o \in OptionIds :
        /\ req[v].op = "cast_vote" /\ req[w].op = "cast_anonymous_vote"
        /\ Done(v) /\ Done(w)
        /\ req[v].resp.code = 201 /\ req[w].resp.code = 201
        /\ req[v].poll_id = p /\ req[w].poll_id = p
        /\ req[v].option_id = o /\ req[w].option_id = o
        /\ poll_votes[p][o] = 2
        /\ Cardinality(OptionRows(p, o)) = 2
        /\ budget = 0

\* ---------------------------------------------------------------- C22
\* the sum of f over the finite set S, f[x] a natural number: one pair
\* <<x, k>> for each unit of f[x]
SumOver(f, S) == Cardinality(UNION {{<<x, k>> : k \in 1..f[x]} : x \in S})

\* the calls of the route's handler for the address at time at, whatever the
\* time the list holds for them
CallsAt(client_ip, route, at) ==
    SumOver([st \in Times |-> invoked[client_ip][route][st][at]], Times)

\* the calls of the route's handler for the address in the window_seconds
\* that start at time a
CallsWithin(client_ip, route, a) ==
    SumOver([at \in Times |-> IF a <= at /\ at < a + WINDOW_SECONDS
                              THEN CallsAt(client_ip, route, at) ELSE 0], Times)

\* C22: for every client address and rate-limited route, under any
\* interleaving, the handler is called at most max_requests times within any
\* window_seconds; a request over the limit is answered 429, its handler is
\* not called and its time is not added to the list.
C22_AtMostMaxPerWindow ==
    \A i \in Ips, r \in Routes, a \in Times :
        CallsWithin(i, r, a) <= max_requests(r)

\* ---------------------------------------------------------------- C23
\* the requests of the address that were let through, on any route, with a
\* recorded time less than window_seconds before current_time
AdmittedRecent(client_ip, current_time) ==
    SumOver([x \in Routes \X Times \X Times |->
                IF current_time - x[2] < WINDOW_SECONDS
                THEN invoked[client_ip][x[1]][x[2]][x[3]] ELSE 0],
            Routes \X Times \X Times)

\* the step of a request through the limiter
C23_Step ==
    \A t \in Workers :
        (gw[t].pc = "timed" /\ gw'[t].pc = "done") =>
            LET r == gw[t]
                n == AdmittedRecent(r.client_ip, r.current_time)
            IN  /\ gw'[t].code = 429 <=> n >= max_requests(r.route)
                /\ gw'[t].kept = n
                /\ gw'[t].code = 429 =>
                      /\ invoked' = invoked
                      /\ Len(request_counts'[r.client_ip]) = n
                /\ gw'[t].code # 429 =>
                      /\ gw'[t].code = 200
                      /\ Len(request_counts'[r.client_ip]) = n + 1
                      /\ AdmittedRecent(r.client_ip, r.current_time)' = n + 1

C24_Step ==
    \A w \in Workers :
        LET n == req'[w]
            rows == KeyRows("cast_vote", n.poll_id, n.user_id)
        IN  (n # req[w] /\ n.op = "check_vote_status") =>
                /\ votes' = votes
                /\ (n.pc = "done" /\ n.resp.code = 200) =>
                      /\ n.resp.has_voted <=> rows # {}
                      /\ n.resp.has_voted =>
                            n.resp.option_id =
                               votes[CHOOSE i \in rows : \A j \in rows : i <= j].option_id
                      /\ ~n.resp.has_voted => n.resp.option_id = None

\* C24: check_vote_status(poll_id) of a token holder reports has_voted true
\* if and only if the votes table holds a row of (poll_id, user_id), with the
\* option_id of that row; it never changes the table; rows of other users, of
\* other polls and anonymous rows do not make it report true.
C24_StatusMatchesLedger == [][C24_Step]_vars

\* C24, reached: a check is answered has_voted false while the table holds a
\* row of another user for the poll, an anonymous row for the poll and a row
\* of the user for another poll
C24_Witness ==
    \E w \in Workers :
        /\ req[w].op = "check_vote_status" /\ Done(w)
        /\ req[w].resp.code = 200 /\ ~req[w].resp.has_voted
        /\ \E i, j, k \in 1..Len(votes) :
              /\ votes[i].poll_id = req[w].poll_id
              /\ votes[i].user_id \notin {None, req[w].user_id}
              /\ votes[j].poll_id = req[w].poll_id /\ votes[j].user_id = None
              /\ votes[k].poll_id # req[w].poll_id
              /\ votes[k].user_id = req[w].user_id

\* C24, reached: a check is answered has_voted true with the option of the
\* user's row, which is not the first row of the table
C24_WitnessVoted ==
    \E w \in Workers :
        /\ req[w].op = "check_vote_status" /\ Done(w)
        /\ req[w].resp.code = 200 /\ req[w].resp.has_voted
        /\ VoteOf(req[w].poll_id, req[w].user_id) > 1
        /\ req[w].resp.option_id # votes[1].option_id

====
